---- MODULE Spec2Model ----
(***************************************************************************)
(* mp3-duration: from_file (src/src/lib.rs) scans a seekable byte stream   *)
(* window by window, skips ID3v1 / ID3v2 tags, decodes MPEG frame headers  *)
(* and accumulates the playback duration.                                  *)
(*                                                                         *)
(* The byte stream is kept as a sequence of chunks; a chunk is a run of    *)
(* explicit bytes (head) followed by `fill` bytes of value 0.  This is an  *)
(* exact encoding of a byte string; the scanner only ever sees bytes,      *)
(* through ReadAt.  The kind / ns fields of a chunk describe how the       *)
(* input was laid out and are read by the properties only.                 *)
(***************************************************************************)
EXTENDS Integers, Sequences, FiniteSets, TLC

VARIABLES file, pos, buffer, duration, pc, result

vars == <<file, pos, buffer, duration, pc, result>>

---------------------------------------------------------------------------
(* Bounds of the input space *)

\* number of whole chunks (frames, tags) in front of the tail of a file
MaxChunks == 3

---------------------------------------------------------------------------
(* Machine arithmetic *)

\* TLC's integers are 32-bit signed, so a u32 that can exceed 2^31 - 1 (the
\* frame header) is kept as its two 16-bit halves [hi, lo], and a u64
\* product is divided limb by limb.  Every other quantity of the program
\* stays below 2^31 on the inputs explored, and is a plain integer.

Shr(x, n) == x \div (2 ^ n)

Shl(x, n) == x * (2 ^ n)

\* (h >> n) for a u32 h = [hi, lo] and 1 <= n <= 31
ShrU32(h, n) ==
    IF n >= 16 THEN Shr(h.hi, n - 16)
    ELSE Shl(h.hi, 16 - n) + Shr(h.lo, n)

\* floor(x * 1000^k / d), given q = x \div d and rem = x % d
RECURSIVE MulPow1000Div(_, _, _, _)
MulPow1000Div(q, rem, d, k) ==
    IF k = 0 THEN q
    ELSE MulPow1000Div(q * 1000 + (rem * 1000) \div d, (rem * 1000) % d, d, k - 1)

\* bitwise and / or of two naturals
BitAndOf[a \in Nat, b \in Nat] ==
    IF a = 0 \/ b = 0 THEN 0
    ELSE (IF a % 2 = 1 /\ b % 2 = 1 THEN 1 ELSE 0) + 2 * BitAndOf[a \div 2, b \div 2]

BitAnd(a, b) == BitAndOf[a, b]

BitOrOf[a \in Nat, b \in Nat] ==
    IF a = 0 THEN b
    ELSE IF b = 0 THEN a
    ELSE (IF a % 2 = 1 \/ b % 2 = 1 THEN 1 ELSE 0) + 2 * BitOrOf[a \div 2, b \div 2]

BitOr(a, b) == BitOrOf[a, b]

---------------------------------------------------------------------------
(* Errors and results *)

NoError == [kind |-> "none", code |-> 0]

Err(kind, code) == [kind |-> kind, code |-> code]

\* Result<u32, Error> of the lookup functions
OkVal(v) == [ok |-> TRUE, val |-> v, err |-> NoError]

Bail(kind, code) == [ok |-> FALSE, val |-> 0, err |-> Err(kind, code)]

---------------------------------------------------------------------------
(* enum Version, enum Layer: the discriminants used as table indices *)

Mpeg1 == 0

Mpeg2 == 1

Mpeg25 == 2

NotDefined == 0

Layer1 == 1

Layer2 == 2

Layer3 == 3

---------------------------------------------------------------------------
(* Lookup tables (0-based in the source, hence the + 1) *)

Zero16 == <<0, 0, 0, 0, 0, 0, 0, 0, 0, 0, 0, 0, 0, 0, 0, 0>>

BIT_RATES ==
    << << Zero16,
          <<0, 32, 64, 96, 128, 160, 192, 224, 256, 288, 320, 352, 384, 416, 448, 0>>,
          <<0, 32, 48, 56, 64, 80, 96, 112, 128, 160, 192, 224, 256, 320, 384, 0>>,
          <<0, 32, 40, 48, 56, 64, 80, 96, 112, 128, 160, 192, 224, 256, 320, 0>> >>,
       << Zero16,
          <<0, 32, 48, 56, 64, 80, 96, 112, 128, 144, 160, 176, 192, 224, 256, 0>>,
          <<0, 8, 16, 24, 32, 40, 48, 56, 64, 80, 96, 112, 128, 144, 160, 0>>,
          <<0, 8, 16, 24, 32, 40, 48, 56, 64, 80, 96, 112, 128, 144, 160, 0>> >>,
       << Zero16,
          <<0, 32, 48, 56, 64, 80, 96, 112, 128, 144, 160, 176, 192, 224, 256, 0>>,
          <<0, 8, 16, 24, 32, 40, 48, 56, 64, 80, 96, 112, 128, 144, 160, 0>>,
          <<0, 8, 16, 24, 32, 40, 48, 56, 64, 80, 96, 112, 128, 144, 160, 0>> >> >>

SAMPLING_RATES ==
    << <<44100, 48000, 32000, 0>>,
       <<22050, 24000, 16000, 0>>,
       <<11025, 12000, 8000, 0>> >>

SAMPLES_PER_FRAME ==
    << <<0, 384, 1152, 1152>>,
       <<0, 384, 1152, 576>>,
       <<0, 384, 1152, 576>> >>

\* lets the free-format code 0 through
InvalidBitrateCode_ZeroAllowed(encoded_bitrate) == encoded_bitrate >= 15

InvalidBitrateCode(encoded_bitrate) == encoded_bitrate <= 0 \/ encoded_bitrate >= 15

\* leaves the table's kbit/s unscaled
get_bitrate_Kbps(version, layer, encoded_bitrate) ==
    IF InvalidBitrateCode(encoded_bitrate)
    THEN Bail("InvalidBitrate", encoded_bitrate)
    ELSE IF layer = NotDefined
    THEN Bail("ForbiddenLayer", 0)
    ELSE OkVal(BIT_RATES[version + 1][layer + 1][encoded_bitrate + 1])

\* checks the layer before the bitrate code
get_bitrate_LayerFirst(version, layer, encoded_bitrate) ==
    IF layer = NotDefined
    THEN Bail("ForbiddenLayer", 0)
    ELSE IF InvalidBitrateCode(encoded_bitrate)
    THEN Bail("InvalidBitrate", encoded_bitrate)
    ELSE OkVal(1000 * BIT_RATES[version + 1][layer + 1][encoded_bitrate + 1])

get_bitrate(version, layer, encoded_bitrate) ==
    IF InvalidBitrateCode(encoded_bitrate)
    THEN Bail("InvalidBitrate", encoded_bitrate)
    ELSE IF layer = NotDefined
    THEN Bail("ForbiddenLayer", 0)
    ELSE OkVal(1000 * BIT_RATES[version + 1][layer + 1][encoded_bitrate + 1])

InvalidSamplingRateCode(encoded_sampling_rate) == encoded_sampling_rate >= 3

get_sampling_rate(version, encoded_sampling_rate) ==
    IF InvalidSamplingRateCode(encoded_sampling_rate)
    THEN Bail("InvalidSamplingRate", encoded_sampling_rate)
    ELSE OkVal(SAMPLING_RATES[version + 1][encoded_sampling_rate + 1])

get_samples_per_frame(version, layer) ==
    IF layer = NotDefined
    THEN Bail("ForbiddenLayer", 0)
    ELSE OkVal(SAMPLES_PER_FRAME[version + 1][layer + 1])

---------------------------------------------------------------------------
(* The byte stream: T: Read + Seek *)

ChunkLen(c) == Len(c.head) + c.fill

RECURSIVE FileLen(_)
FileLen(f) == IF f = <<>> THEN 0 ELSE ChunkLen(Head(f)) + FileLen(Tail(f))

\* the byte at offset p (0-based), p < FileLen(f)
RECURSIVE ByteAt(_, _)
ByteAt(f, p) ==
    LET c == Head(f) IN
    IF p < Len(c.head) THEN c.head[p + 1]
    ELSE IF p < ChunkLen(c) THEN 0
    ELSE ByteAt(Tail(f), p - ChunkLen(c))

\* bytes left between the cursor and the end of the stream
Available(f, p) == IF p >= FileLen(f) THEN 0 ELSE FileLen(f) - p

ReadAt(f, p, n) == [i \in 1..n |-> ByteAt(f, p + i - 1)]

\* read_exact succeeds iff the whole buffer can be filled
CanReadExact(f, p, n) == Available(f, p) >= n

\* cursor after a read_exact that hit end of file: std's read_exact reads
\* until read() returns 0, so what was left has been consumed
EofCursor(f, p) == IF p < FileLen(f) THEN FileLen(f) ELSE p

\* file.seek(SeekFrom::Current(n)), n >= 0: seeking past the end is allowed
SeekCurrent(p, n) == p + n

---------------------------------------------------------------------------
(* Classification of the 4-byte window *)

is_id3v1(b) == b[1] = 84 /\ b[2] = 65 /\ b[3] = 71

is_id3v2(b) == b[1] = 73 /\ b[2] = 68 /\ b[3] = 51

\* (b0 << 24) | (b1 << 16) | (b2 << 8) | b3, as 16-bit halves
Header(b) == [hi |-> BitOr(Shl(b[1], 8), b[2]), lo |-> BitOr(Shl(b[3], 8), b[4])]

SyncWord == 2047

\* tests the first byte only
is_mp3_FirstByte(header) == ShrU32(header, 24) = 255

is_mp3(header) == ShrU32(header, 21) = SyncWord

---------------------------------------------------------------------------
(* ID3v2 tag header: the 6 bytes after the window *)

\* the whole tag, the window included
Id3v1SkipWholeTag == 124 + 4

Id3v1Skip == 124

FooterFlag == 16

\* tests the extended-header bit instead of the footer bit
footer_size_WrongBit(id3v2) == IF 0 # BitAnd(id3v2[2], 64) THEN 10 ELSE 0

footer_size(id3v2) == IF 0 # BitAnd(id3v2[2], FooterFlag) THEN 10 ELSE 0

tag_size(id3v2) ==
    BitOr(BitOr(BitOr(id3v2[6], Shl(id3v2[5], 7)), Shl(id3v2[4], 14)),
          Shl(id3v2[3], 21))

Id3v2Skip(id3v2) == tag_size(id3v2) + footer_size(id3v2)

---------------------------------------------------------------------------
(* MPEG frame header *)

VersionCode(header) == BitAnd(ShrU32(header, 19), 3)

LayerCode(header) == BitAnd(ShrU32(header, 17), 3)

encoded_bitrate(header) == BitAnd(ShrU32(header, 12), 15)

\* masks one bit instead of two
encoded_sampling_rate_OneBit(header) == BitAnd(ShrU32(header, 10), 1)

encoded_sampling_rate(header) == BitAnd(ShrU32(header, 10), 3)

padding(header) == IF 0 # BitAnd(ShrU32(header, 9), 1) THEN 1 ELSE 0

\* takes 10 for the reserved code
ForbiddenVersionCode_Two(code) == code = 2

ForbiddenVersionCode(code) == code = 1

\* match (header >> 19) & 0b11 { 0 => Mpeg25, 2 => Mpeg2, 3 => Mpeg1 }
VersionOf(code) == IF code = 0 THEN Mpeg25 ELSE IF code = 2 THEN Mpeg2 ELSE Mpeg1

\* match (header >> 17) & 0b11
LayerOf(code) ==
    IF code = 0 THEN NotDefined
    ELSE IF code = 1 THEN Layer3
    ELSE IF code = 2 THEN Layer2
    ELSE Layer1

\* (num_samples as u64 * 1_000_000_000) / (sampling_rate as u64)
frame_duration(num_samples, sampling_rate) ==
    MulPow1000Div(num_samples \div sampling_rate, num_samples % sampling_rate,
                  sampling_rate, 3)

\* leaves the padding byte out
frame_length_NoPadding(num_samples, bitrate, sampling_rate, pad) ==
    ((num_samples \div 8) * bitrate) \div sampling_rate - 4

\* the 4 header bytes already read are not taken off
frame_length_WholeFrame(num_samples, bitrate, sampling_rate, pad) ==
    ((num_samples \div 8) * bitrate) \div sampling_rate + pad

\* num_samples / 8 * bitrate / sampling_rate + padding - 4
frame_length(num_samples, bitrate, sampling_rate, pad) ==
    ((num_samples \div 8) * bitrate) \div sampling_rate + pad - 4

\* looks the sampling rate up before the bitrate
DecodeFrame_RateFirst(header) ==
    IF ForbiddenVersionCode(VersionCode(header))
    THEN [ok |-> FALSE, err |-> Err("ForbiddenVersion", 0), len |-> 0, ns |-> 0]
    ELSE
      LET version == VersionOf(VersionCode(header))
          layer == LayerOf(LayerCode(header))
          bitrate == get_bitrate(version, layer, encoded_bitrate(header))
          sampling_rate == get_sampling_rate(version, encoded_sampling_rate(header))
          num_samples == get_samples_per_frame(version, layer)
      IN  IF ~sampling_rate.ok
          THEN [ok |-> FALSE, err |-> sampling_rate.err, len |-> 0, ns |-> 0]
          ELSE IF ~bitrate.ok
          THEN [ok |-> FALSE, err |-> bitrate.err, len |-> 0, ns |-> 0]
          ELSE IF ~num_samples.ok
          THEN [ok |-> FALSE, err |-> num_samples.err, len |-> 0, ns |-> 0]
          ELSE [ok |-> TRUE, err |-> NoError,
                len |-> frame_length(num_samples.val, bitrate.val,
                                     sampling_rate.val, padding(header)),
                ns |-> frame_duration(num_samples.val, sampling_rate.val)]

\* the body of `if is_mp3 { ... }` up to the seek: the first error in the
\* order of the checks, or the frame's length and duration
DecodeFrame(header) ==
    IF ForbiddenVersionCode(VersionCode(header))
    THEN [ok |-> FALSE, err |-> Err("ForbiddenVersion", 0), len |-> 0, ns |-> 0]
    ELSE
      LET version == VersionOf(VersionCode(header))
          layer == LayerOf(LayerCode(header))
          bitrate == get_bitrate(version, layer, encoded_bitrate(header))
          sampling_rate == get_sampling_rate(version, encoded_sampling_rate(header))
          num_samples == get_samples_per_frame(version, layer)
      IN  IF ~bitrate.ok
          THEN [ok |-> FALSE, err |-> bitrate.err, len |-> 0, ns |-> 0]
          ELSE IF ~sampling_rate.ok
          THEN [ok |-> FALSE, err |-> sampling_rate.err, len |-> 0, ns |-> 0]
          ELSE IF ~num_samples.ok
          THEN [ok |-> FALSE, err |-> num_samples.err, len |-> 0, ns |-> 0]
          ELSE [ok |-> TRUE, err |-> NoError,
                len |-> frame_length(num_samples.val, bitrate.val,
                                     sampling_rate.val, padding(header)),
                ns |-> frame_duration(num_samples.val, sampling_rate.val)]

---------------------------------------------------------------------------
(* Result<Duration, Error> of from_file; Duration in nanoseconds *)

Pending == [kind |-> "pending", duration |-> 0, err |-> NoError]

Ok(d) == [kind |-> "Ok", duration |-> d, err |-> NoError]

Failure(e) == [kind |-> "Err", duration |-> 0, err |-> e]

ZeroBuffer == <<0, 0, 0, 0>>

\* the `?` after the 6-byte read_exact: every Err, UnexpectedEof included,
\* is returned to the caller
Id3v2EofResult(d) == Failure(Err("UnexpectedEof", 0))

\* overwrites the running total
AddDurationOverwrites(d, ns) == ns

\* adds the frame's time in microseconds
AddDurationMicros(d, ns) == d + ns \div 1000

\* duration + Duration::new(0, frame_duration as u32)
AddDuration(d, ns) == d + ns

---------------------------------------------------------------------------
(* The input space: the files from_file is run on *)

Chunk(kind, head, fill, ns) == [kind |-> kind, head |-> head, fill |-> fill, ns |-> ns]

\* a frame header, field by field (ISO/IEC 11172-3 bit layout)
HeaderBytes(ver, lay, prot, br, sr, pad, last) ==
    <<255, 224 + ver * 8 + lay * 2 + prot, br * 16 + sr * 4 + pad * 2, last>>

\* whole frames; samples, bps, hz are the values the MPEG standard gives for
\* the header's codes
\* MPEG1 Layer3, 320 kbit/s, 44100 Hz, no padding: floor(1152 * 10^9 / 44100) ns
Cbr320Spec ==
    [ver |-> 3, lay |-> 1, br |-> 14, sr |-> 0, pad |-> 0,
     samples |-> 1152, bps |-> 320000, hz |-> 44100, ns |-> 26122448]

\* MPEG2 Layer3, 8 kbit/s, 24000 Hz, no padding: the shortest frame there is
SmallSpec ==
    [ver |-> 2, lay |-> 1, br |-> 1, sr |-> 1, pad |-> 0,
     samples |-> 576, bps |-> 8000, hz |-> 24000, ns |-> 24000000]

\* MPEG1 Layer1, 448 kbit/s, 32000 Hz, padded
Layer1Spec ==
    [ver |-> 3, lay |-> 3, br |-> 14, sr |-> 2, pad |-> 1,
     samples |-> 384, bps |-> 448000, hz |-> 32000, ns |-> 12000000]

FrameSpecs == {Cbr320Spec, SmallSpec, Layer1Spec}

\* MPEG2.5 Layer2 at 8000 Hz (the longest frame duration), MPEG1 Layer3 padded,
\* MPEG2 Layer1 at 22050 Hz
MoreFrameSpecs ==
    { [ver |-> 0, lay |-> 2, br |-> 14, sr |-> 2, pad |-> 0,
       samples |-> 1152, bps |-> 160000, hz |-> 8000, ns |-> 144000000],
      [ver |-> 3, lay |-> 1, br |-> 9, sr |-> 0, pad |-> 1,
       samples |-> 1152, bps |-> 128000, hz |-> 44100, ns |-> 26122448],
      [ver |-> 2, lay |-> 3, br |-> 4, sr |-> 0, pad |-> 0,
       samples |-> 384, bps |-> 64000, hz |-> 22050, ns |-> 17414965] }

FrameChunk(s) ==
    Chunk("frame", HeaderBytes(s.ver, s.lay, 1, s.br, s.sr, s.pad, 100),
          ((s.samples \div 8) * s.bps) \div s.hz + s.pad - 4, s.ns)

Frames == { FrameChunk(s) : s \in FrameSpecs }

Cbr320 == FrameChunk(Cbr320Spec)

SmallFrame == FrameChunk(SmallSpec)

\* an ID3v1 tag: 128 bytes, "TAG" first
Id3v1Chunk == Chunk("id3v1", <<84, 65, 71, 83>>, 124, 0)

\* the size an ID3v2 header declares: 4 synchsafe bytes, 7 bits each
DeclaredSize(s) ==
    (((s[1] % 128) * 128 + (s[2] % 128)) * 128 + (s[3] % 128)) * 128 + (s[4] % 128)

SynchSafe(s) == \A i \in 1..4 : s[i] < 128

\* an ID3v2 tag: "ID3", version 2.4.0, flags, size, then the body the size
\* declares and a 10-byte footer when the footer flag is set
Id3v2Chunk(flags, s) ==
    Chunk(IF SynchSafe(s) THEN "id3v2" ELSE "id3v2x",
          <<73, 68, 51, 4, 0, flags>> \o s,
          DeclaredSize(s) + (IF (flags \div 16) % 2 = 1 THEN 10 ELSE 0), 0)

\* 128 bytes of body and a footer
FooterTag == Id3v2Chunk(16, <<0, 0, 1, 0>>)

\* the largest size there is, 2^28 - 1, every flag but the footer's set
LargestTag == Id3v2Chunk(239, <<127, 127, 127, 127>>)

Id3v2Tags == {FooterTag, LargestTag}

BodyChunks == Frames \cup {Id3v1Chunk} \cup Id3v2Tags

\* the first k bytes of a chunk
Cut(c, k) ==
    Chunk("cut",
          IF k < Len(c.head) THEN SubSeq(c.head, 1, k) ELSE c.head,
          IF k < Len(c.head) THEN 0 ELSE k - Len(c.head), 0)

\* a stream that ends inside a window, right after a window, inside the
\* ID3v2 header, right after it, or inside a frame's or a tag's body
Truncated ==
    { Cut(SmallFrame, 3), Cut(SmallFrame, 4), Cut(SmallFrame, 23),
      Cut(Id3v1Chunk, 4), Cut(Id3v1Chunk, 127),
      Cut(FooterTag, 4), Cut(FooterTag, 9), Cut(FooterTag, 10), Cut(FooterTag, 147) }

\* windows that are neither a tag signature nor a frame sync
Garbage ==
    { Chunk("raw", b, 8, 0) :
        b \in { <<0, 0, 0, 0>>, <<255, 216, 255, 224>>, <<84, 65, 88, 0>>,
                <<73, 68, 52, 3>>, <<255, 223, 255, 255>> } }

\* the windows that follow whole chunks in LayoutFiles
TailGarbage == { c \in Garbage : c.head[1] \in {0, 255} /\ c.head[2] # 223 }

Tails == {<<>>} \cup { <<c>> : c \in Truncated \cup TailGarbage }

ChunkSeqs(n) == UNION { [1..k -> BodyChunks] : k \in 0..n }

\* up to MaxChunks whole frames and tags, then possibly a truncated chunk or garbage
LayoutFiles == { b \o t : b \in ChunkSeqs(MaxChunks), t \in Tails }

\* every combination of the header fields the scanner decodes
HeaderFiles ==
    { pre \o <<Chunk("header", HeaderBytes(ver, lay, 1, br, sr, pad, 0), fill, 0)>> :
        pre \in {<<>>, <<SmallFrame>>}, ver \in 0..3, lay \in 0..3, br \in 0..15,
        sr \in 0..3, pad \in 0..1, fill \in {0, 100} }

\* non-audio data, possibly after a frame
GarbageFiles == { pre \o <<c>> : pre \in {<<>>, <<SmallFrame>>}, c \in Garbage }

\* one or two whole frames of every kind above
FrameFiles ==
    LET all == { FrameChunk(s) : s \in FrameSpecs \cup MoreFrameSpecs }
    IN  { <<a>> : a \in all } \cup { <<a, b>> : a \in all, b \in all }

SizeBytes == {0, 1, 127, 128, 255}

\* ID3v2 headers over the size bytes, synchsafe or not
Id3v2Files ==
    { <<Id3v2Chunk(flags, <<a, b, c, d>>), SmallFrame>> :
        flags \in {0, 16}, a \in SizeBytes, b \in SizeBytes, c \in SizeBytes,
        d \in SizeBytes }

Files == LayoutFiles \cup HeaderFiles \cup Id3v2Files \cup GarbageFiles \cup FrameFiles

---------------------------------------------------------------------------
(* The scan loop of from_file.  pc = "loop": about to read the next window; *)
(* pc = "dispatch": the window is in buffer; pc = "returned": from_file has *)
(* returned `result`.                                                       *)

Init ==
    /\ file \in Files
    /\ pos = 0
    /\ buffer = ZeroBuffer
    /\ duration = 0
    /\ pc = "loop"
    /\ result = Pending

\* file.read_exact(&mut buffer[..]) => Ok(_)
ReadWindow ==
    /\ pc = "loop"
    /\ CanReadExact(file, pos, 4)
    /\ buffer' = ReadAt(file, pos, 4)
    /\ pos' = pos + 4
    /\ pc' = "dispatch"
    /\ UNCHANGED <<file, duration, result>>

\* file.read_exact(&mut buffer[..]) => Err(UnexpectedEof) => break; Ok(duration)
ReadEof ==
    /\ pc = "loop"
    /\ ~CanReadExact(file, pos, 4)
    /\ buffer' = [i \in 1..4 |->
                    IF i <= Available(file, pos) THEN ByteAt(file, pos + i - 1)
                    ELSE buffer[i]]
    /\ pos' = EofCursor(file, pos)
    /\ result' = Ok(duration)
    /\ pc' = "returned"
    /\ UNCHANGED <<file, duration>>

\* if is_id3v1 { seek(Current(124)); continue }
SkipId3v1 ==
    /\ pc = "dispatch"
    /\ is_id3v1(buffer)
    /\ pos' = SeekCurrent(pos, Id3v1Skip)
    /\ pc' = "loop"
    /\ UNCHANGED <<file, buffer, duration, result>>

\* if is_id3v2 { read_exact(6 bytes)?; seek(Current(tag_size + footer_size)); continue }
SkipId3v2 ==
    /\ pc = "dispatch"
    /\ ~is_id3v1(buffer)
    /\ is_id3v2(buffer)
    /\ CanReadExact(file, pos, 6)
    /\ pos' = SeekCurrent(pos + 6, Id3v2Skip(ReadAt(file, pos, 6)))
    /\ pc' = "loop"
    /\ UNCHANGED <<file, buffer, duration, result>>

\* if is_id3v2 { read_exact(6 bytes)? : the ? returns the UnexpectedEof error
Id3v2HeaderEof ==
    /\ pc = "dispatch"
    /\ ~is_id3v1(buffer)
    /\ is_id3v2(buffer)
    /\ ~CanReadExact(file, pos, 6)
    /\ pos' = EofCursor(file, pos)
    /\ result' = Id3v2EofResult(duration)
    /\ pc' = "returned"
    /\ UNCHANGED <<file, buffer, duration>>

\* counts the frame only when its body is in the stream
CountFrame_NeedsBody ==
    /\ pc = "dispatch"
    /\ ~is_id3v1(buffer)
    /\ ~is_id3v2(buffer)
    /\ is_mp3(Header(buffer))
    /\ DecodeFrame(Header(buffer)).ok
    /\ IF pos + DecodeFrame(Header(buffer)).len <= FileLen(file)
       THEN /\ pos' = SeekCurrent(pos, DecodeFrame(Header(buffer)).len)
            /\ duration' = AddDuration(duration, DecodeFrame(Header(buffer)).ns)
            /\ pc' = "loop"
            /\ UNCHANGED <<file, buffer, result>>
       ELSE /\ result' = Failure(Err("UnexpectedEof", 0))
            /\ pc' = "returned"
            /\ UNCHANGED <<file, pos, buffer, duration>>

\* if is_mp3 { ...; seek(Current(frame_length)); duration += frame_duration; continue }
CountFrame ==
    /\ pc = "dispatch"
    /\ ~is_id3v1(buffer)
    /\ ~is_id3v2(buffer)
    /\ is_mp3(Header(buffer))
    /\ DecodeFrame(Header(buffer)).ok
    /\ pos' = SeekCurrent(pos, DecodeFrame(Header(buffer)).len)
    /\ duration' = AddDuration(duration, DecodeFrame(Header(buffer)).ns)
    /\ pc' = "loop"
    /\ UNCHANGED <<file, buffer, result>>

\* if is_mp3 { ... bail!(ForbiddenVersion) / get_bitrate()? / get_sampling_rate()? / ...
RejectFrame ==
    /\ pc = "dispatch"
    /\ ~is_id3v1(buffer)
    /\ ~is_id3v2(buffer)
    /\ is_mp3(Header(buffer))
    /\ ~DecodeFrame(Header(buffer)).ok
    /\ result' = Failure(DecodeFrame(Header(buffer)).err)
    /\ pc' = "returned"
    /\ UNCHANGED <<file, pos, buffer, duration>>

\* drops the window and goes on scanning
UnexpectedResync ==
    /\ pc = "dispatch"
    /\ ~is_id3v1(buffer)
    /\ ~is_id3v2(buffer)
    /\ ~is_mp3(Header(buffer))
    /\ pc' = "loop"
    /\ UNCHANGED <<file, pos, buffer, duration, result>>

\* bail!(UnexpectedFrame { header })
Unexpected ==
    /\ pc = "dispatch"
    /\ ~is_id3v1(buffer)
    /\ ~is_id3v2(buffer)
    /\ ~is_mp3(Header(buffer))
    /\ result' = Failure(Err("UnexpectedFrame", Header(buffer)))
    /\ pc' = "returned"
    /\ UNCHANGED <<file, pos, buffer, duration>>

Next ==
    \/ ReadWindow
    \/ ReadEof
    \/ SkipId3v1
    \/ SkipId3v2
    \/ Id3v2HeaderEof
    \/ CountFrame
    \/ RejectFrame
    \/ Unexpected

Spec == Init /\ [][Next]_vars

---------------------------------------------------------------------------
(* The scan under its scheduling: from_file is one synchronous loop whose   *)
(* reads and seeks block until they are done, so a step that can be taken   *)
(* is taken.                                                                *)

\* the files the liveness check runs on: whole chunks and a tail, non-audio
\* data, and a frame followed by each header with a reserved code
FairFiles ==
    { b \o t : b \in ChunkSeqs(MaxChunks - 1), t \in Tails }
        \cup GarbageFiles
        \cup { f \in HeaderFiles : Len(f) = 2 /\ f[2].fill = 0 /\ f[2].head[3] \div 64 # 1 }

InitFair ==
    /\ file \in FairFiles
    /\ pos = 0
    /\ buffer = ZeroBuffer
    /\ duration = 0
    /\ pc = "loop"
    /\ result = Pending

FairSpec == InitFair /\ [][Next]_vars /\ WF_vars(Next)

---------------------------------------------------------------------------
(* The same scan on a stream whose reads and seeks can fail *)

\* an std::io::Error other than UnexpectedEof
IoError == Err("Io", 0)

\* the files the failing stream holds
IoFiles ==
    { b \o t : b \in ChunkSeqs(MaxChunks - 1), t \in Tails }
        \cup HeaderFiles \cup GarbageFiles

InitIO ==
    /\ file \in IoFiles
    /\ pos = 0
    /\ buffer = ZeroBuffer
    /\ duration = 0
    /\ pc = "loop"
    /\ result = Pending

\* file.read_exact(&mut buffer[..]) => Err(e), e.kind() other than
\* UnexpectedEof => bail!(e); how many bytes were read is unspecified
WindowReadFails ==
    /\ pc = "loop"
    /\ \E k \in 0..3 :
          /\ k <= Available(file, pos)
          /\ pos' = pos + k
    /\ result' = Failure(IoError)
    /\ pc' = "returned"
    /\ UNCHANGED <<file, buffer, duration>>

\* file.read_exact(&mut id3v2)? => Err(e)
Id3v2ReadFails ==
    /\ pc = "dispatch"
    /\ ~is_id3v1(buffer)
    /\ is_id3v2(buffer)
    /\ \E k \in 0..5 :
          /\ k <= Available(file, pos)
          /\ pos' = pos + k
    /\ result' = Failure(IoError)
    /\ pc' = "returned"
    /\ UNCHANGED <<file, buffer, duration>>

\* file.seek(SeekFrom::Current(..))? => Err(e), at any of the three seeks
SeekFails ==
    /\ pc = "dispatch"
    /\ \/ is_id3v1(buffer)
       \/ ~is_id3v1(buffer) /\ is_id3v2(buffer) /\ CanReadExact(file, pos, 6)
       \/ /\ ~is_id3v1(buffer)
          /\ ~is_id3v2(buffer)
          /\ is_mp3(Header(buffer))
          /\ DecodeFrame(Header(buffer)).ok
    /\ pos' = IF ~is_id3v1(buffer) /\ is_id3v2(buffer) THEN pos + 6 ELSE pos
    /\ result' = Failure(IoError)
    /\ pc' = "returned"
    /\ UNCHANGED <<file, buffer, duration>>

NextIO ==
    \/ Next
    \/ WindowReadFails
    \/ Id3v2ReadFails
    \/ SeekFails

SpecIO == InitIO /\ [][NextIO]_vars

---------------------------------------------------------------------------
(* from_file as a function of the stream: the loop run to its return *)

RECURSIVE Scan(_, _, _)
Scan(f, p, d) ==
    IF ~CanReadExact(f, p, 4) THEN Ok(d)
    ELSE
      LET b == ReadAt(f, p, 4)
          q == p + 4
      IN  IF is_id3v1(b) THEN Scan(f, SeekCurrent(q, Id3v1Skip), d)
          ELSE IF is_id3v2(b)
          THEN IF ~CanReadExact(f, q, 6) THEN Id3v2EofResult(d)
               ELSE Scan(f, SeekCurrent(q + 6, Id3v2Skip(ReadAt(f, q, 6))), d)
          ELSE IF is_mp3(Header(b))
          THEN IF ~DecodeFrame(Header(b)).ok
               THEN Failure(DecodeFrame(Header(b)).err)
               ELSE Scan(f, SeekCurrent(q, DecodeFrame(Header(b)).len),
                         AddDuration(d, DecodeFrame(Header(b)).ns))
          ELSE Failure(Err("UnexpectedFrame", Header(b)))

from_file(f) == Scan(f, 0, 0)

---------------------------------------------------------------------------
(* Helpers of the properties *)

\* the file without its chunks of one kind
StripKind(f, kind) == SelectSeq(f, LAMBDA c : c.kind # kind)

KindsOf(f) == { f[i].kind : i \in 1..Len(f) }

\* total length of the first n chunks
RECURSIVE PrefixLen(_, _)
PrefixLen(f, n) == IF n = 0 THEN 0 ELSE PrefixLen(f, n - 1) + ChunkLen(f[n])

\* playback time of the first n chunks
RECURSIVE PrefixNs(_, _)
PrefixNs(f, n) == IF n = 0 THEN 0 ELSE PrefixNs(f, n - 1) + f[n].ns

\* the cursor is at the start of a chunk (or at the end of the file) and the
\* running duration is the playback time of the chunks before it
AtBoundary(f, p, d) ==
    \E n \in 0..Len(f) : p = PrefixLen(f, n) /\ d = PrefixNs(f, n)

\* the stepwise scan and the function agree
ScanAgrees == pc = "returned" => result = from_file(file)

---------------------------------------------------------------------------
(* The fields of a window, read off its bytes *)

WinId3v1(b) == <<b[1], b[2], b[3]>> = <<84, 65, 71>>

WinId3v2(b) == <<b[1], b[2], b[3]>> = <<73, 68, 51>>

\* the top 11 bits are all 1
WinSync(b) == b[1] = 255 /\ b[2] >= 224

\* bits 20-19
WinVersion(b) == (b[2] \div 8) % 4

\* bits 18-17
WinLayer(b) == (b[2] \div 2) % 4

\* bits 15-12
WinBitrate(b) == b[3] \div 16

\* bits 11-10
WinSampling(b) == (b[3] \div 4) % 4

\* the window as a big-endian 32-bit header, in 16-bit halves
WinHeader(b) == [hi |-> b[1] * 256 + b[2], lo |-> b[3] * 256 + b[4]]

WholeKinds == {"frame", "id3v1", "id3v2"}

---------------------------------------------------------------------------
(* C1 *)

\* C1: on a stream made only of back-to-back whole frames from_file returns
\* success with the sum of the frames' durations floor(samples * 10^9 / hz);
\* N identical MPEG1 Layer3 44100 Hz frames give N * 26122448 ns.
C1_FramesOnlyDuration ==
    (pc = "returned" /\ KindsOf(file) \subseteq {"frame"}) =>
        /\ result = Ok(PrefixNs(file, Len(file)))
        /\ (\A i \in 1..Len(file) : file[i] = Cbr320) =>
               result = Ok(Len(file) * 26122448)

C1_Witness ==
    /\ pc = "returned"
    /\ Len(file) = 2
    /\ file[1] = Cbr320
    /\ file[2] = Cbr320
    /\ result = Ok(52244896)

---------------------------------------------------------------------------
(* C2 *)

\* C2: an ID3v1 tag (128 bytes, "TAG" first) at a place where a window is
\* expected does not change what from_file returns; the scan adds nothing for
\* it and goes on at the byte right after it.
C2_Id3v1Transparent ==
    /\ pc = "returned" => result = from_file(StripKind(file, "id3v1"))
    /\ (pc = "loop" /\ KindsOf(file) \subseteq {"frame", "id3v1"}) =>
           AtBoundary(file, pos, duration)

C2_Witness ==
    /\ pc = "returned"
    /\ Len(file) = 3
    /\ file[1] = Cbr320
    /\ file[2] = Id3v1Chunk
    /\ file[3] = SmallFrame
    /\ result = Ok(50122448)
    /\ pos = FileLen(file)

---------------------------------------------------------------------------
(* C3 *)

\* C3: an ID3v2 tag (10-byte header, the declared size, 10 more bytes when
\* flag 0x10 is set) at a place where a window is expected does not change
\* what from_file returns; the scan adds nothing for it and goes on at the
\* byte right after the body, or after the footer when there is one.
C3_Id3v2Transparent ==
    /\ pc = "returned" => result = from_file(StripKind(file, "id3v2"))
    /\ (pc = "loop" /\ KindsOf(file) \subseteq {"frame", "id3v2"}) =>
           AtBoundary(file, pos, duration)

C3_Witness ==
    /\ pc = "returned"
    /\ Len(file) = 3
    /\ file[1] = FooterTag
    /\ file[2] = Cbr320
    /\ file[3] = LargestTag
    /\ result = Ok(26122448)
    /\ pos = FileLen(file)

---------------------------------------------------------------------------
(* C4 *)

\* C4: for every value of the 4 size bytes the decoded size is the big-endian
\* packing of their low 7 bits (the top bit of each is ignored), a 28-bit
\* integer; stated of the seek that skips the tag.
C4_SizeIgnoresTopBits ==
    [][(pc = "dispatch" /\ WinId3v2(buffer) /\ Available(file, pos) >= 6) =>
         LET h == ReadAt(file, pos, 6)
             footer == IF (h[2] \div 16) % 2 = 1 THEN 10 ELSE 0
             size == pos' - (pos + 6) - footer
         IN  /\ size = DeclaredSize(<<h[3], h[4], h[5], h[6]>>)
             /\ size \in 0..268435455]_vars

---------------------------------------------------------------------------
(* C5 *)

\* C5: whenever the stream ends during a read of the scan (at a window
\* boundary, inside a window, or inside the 6 remaining bytes of an ID3v2
\* header) from_file returns success with the duration accumulated so far.
C5_EofIsSuccess ==
    [][(\/ pc = "loop" /\ Available(file, pos) < 4
        \/ pc = "dispatch" /\ WinId3v2(buffer) /\ Available(file, pos) < 6) =>
         (pc' = "returned" /\ result' = Ok(duration))]_vars

---------------------------------------------------------------------------
(* C6 *)

\* C6 (as stated): every window with the sync pattern and bitrate code 0 or
\* 15 fails with InvalidBitrate carrying the code, whatever the other fields.
C6_AnyHeader ==
    [][(pc = "dispatch" /\ WinSync(buffer) /\ WinBitrate(buffer) \in {0, 15}) =>
         (pc' = "returned" /\
          result' = Failure(Err("InvalidBitrate", WinBitrate(buffer))))]_vars

\* C6 (amended): every window with the sync pattern, a version code other
\* than 01 and bitrate code 0 or 15 fails with InvalidBitrate carrying the
\* code, whatever the layer, sampling-rate and padding fields; no duration
\* is returned.
C6_VersionAllowed ==
    [][(pc = "dispatch" /\ WinSync(buffer) /\ WinVersion(buffer) # 1
          /\ WinBitrate(buffer) \in {0, 15}) =>
         (pc' = "returned" /\
          result' = Failure(Err("InvalidBitrate", WinBitrate(buffer))))]_vars

C6_Witness ==
    /\ pc = "returned"
    /\ result = Failure(Err("InvalidBitrate", 15))
    /\ duration > 0
    /\ WinLayer(buffer) = 0
    /\ WinSampling(buffer) = 3

---------------------------------------------------------------------------
(* C7 *)

\* C7 (as stated): every window with the sync pattern and sampling-rate code
\* 3 fails with InvalidSamplingRate carrying 3, whatever the other fields.
C7_AnyHeader ==
    [][(pc = "dispatch" /\ WinSync(buffer) /\ WinSampling(buffer) = 3) =>
         (pc' = "returned" /\ result' = Failure(Err("InvalidSamplingRate", 3)))]_vars

\* C7 (amended): every window with the sync pattern, a version code other
\* than 01, a bitrate code in 1..14, a layer code other than 00 and
\* sampling-rate code 3 fails with InvalidSamplingRate carrying 3.
C7_OtherFieldsValid ==
    [][(pc = "dispatch" /\ WinSync(buffer) /\ WinVersion(buffer) # 1
          /\ WinBitrate(buffer) \in 1..14 /\ WinLayer(buffer) # 0
          /\ WinSampling(buffer) = 3) =>
         (pc' = "returned" /\ result' = Failure(Err("InvalidSamplingRate", 3)))]_vars

C7_Witness ==
    /\ pc = "returned"
    /\ result = Failure(Err("InvalidSamplingRate", 3))
    /\ duration > 0
    /\ WinVersion(buffer) = 0
    /\ WinLayer(buffer) = 3
    /\ WinBitrate(buffer) = 14

---------------------------------------------------------------------------
(* C8 *)

\* C8: every window with the sync pattern and version code 01 fails with
\* ForbiddenVersion, whatever the layer, bitrate, sampling-rate and padding.
C8_ForbiddenVersion ==
    [][(pc = "dispatch" /\ WinSync(buffer) /\ WinVersion(buffer) = 1) =>
         (pc' = "returned" /\ result' = Failure(Err("ForbiddenVersion", 0)))]_vars

C8_Witness ==
    /\ pc = "returned"
    /\ result = Failure(Err("ForbiddenVersion", 0))
    /\ WinSync(buffer)
    /\ WinLayer(buffer) = 0
    /\ WinBitrate(buffer) = 15
    /\ WinSampling(buffer) = 3

---------------------------------------------------------------------------
(* C9 *)

\* C9: a window that neither starts with "TAG" or "ID3" nor has the sync
\* pattern ends the scan with UnexpectedFrame carrying the window as a
\* big-endian header, the cursor where the window ended; nothing is read or
\* sought after from_file has returned, and non-audio data fails on its
\* first window.
C9_UnexpectedFrame ==
    [][/\ (pc = "dispatch" /\ ~WinId3v1(buffer) /\ ~WinId3v2(buffer)
             /\ ~WinSync(buffer)) =>
            /\ pc' = "returned"
            /\ result' = Failure(Err("UnexpectedFrame", WinHeader(buffer)))
            /\ pos' = pos
       /\ pc # "returned"
       /\ (pc' = "returned" /\ file # <<>> /\ file[1].kind = "raw") =>
            (pos' = 4 /\ result'.err.kind = "UnexpectedFrame")]_vars

C9_Witness ==
    /\ pc = "returned"
    /\ file # <<>>
    /\ file[1].kind = "raw"
    /\ result = Failure(Err("UnexpectedFrame", [hi |-> 65496, lo |-> 65504]))
    /\ pos = 4

---------------------------------------------------------------------------
(* C10 *)

\* C10 (as stated): whenever from_file returns success the cursor is at the
\* end of the stream.
C10_CursorAtEnd ==
    (pc = "returned" /\ result.kind = "Ok") => pos = FileLen(file)

\* C10 (amended): whenever from_file returns success the cursor is at or
\* past the end of the stream; it is at the end when no frame or tag declares
\* a length that reaches beyond the data.
C10_CursorAtOrPastEnd ==
    (pc = "returned" /\ result.kind = "Ok") =>
        /\ pos >= FileLen(file)
        /\ KindsOf(file) \subseteq WholeKinds => pos = FileLen(file)

C10_Witness ==
    /\ pc = "returned"
    /\ result = Ok(48000000)
    /\ file = <<SmallFrame, Cut(SmallFrame, 23)>>
    /\ pos = FileLen(file) + 1

---------------------------------------------------------------------------
(* C11 *)

\* a window that fails validation: no tag signature and no sync pattern, or
\* the sync pattern with a reserved version, bitrate, layer or sampling code
WinInvalid(b) ==
    /\ ~WinId3v1(b)
    /\ ~WinId3v2(b)
    /\ WinSync(b) =>
         \/ WinVersion(b) = 1
         \/ WinBitrate(b) \in {0, 15}
         \/ WinLayer(b) = 0
         \/ WinSampling(b) = 3

\* C11: from_file returns at the first validation error, read error other
\* than end-of-file, or seek error, without another read or seek; once it
\* has returned nothing more happens; the caller gets either a duration or
\* an error, and with an error no duration, whatever was accumulated.
C11_ErrorsAreTerminal ==
    [][/\ pc # "returned"
       /\ (pc = "dispatch" /\ WinInvalid(buffer)) =>
            /\ pc' = "returned"
            /\ result'.kind = "Err"
            /\ result'.err.kind \in {"UnexpectedFrame", "ForbiddenVersion",
                                     "InvalidBitrate", "ForbiddenLayer",
                                     "InvalidSamplingRate"}
            /\ pos' = pos
       /\ result'.kind = "Err" =>
            /\ pc' = "returned"
            /\ result'.err # NoError
            /\ result'.duration = 0
            /\ duration' = duration
       /\ result'.kind = "Ok" =>
            /\ pc' = "returned"
            /\ result'.err = NoError
            /\ result'.duration = duration
       /\ result'.kind = "pending" => pc' # "returned"]_vars

C11_Witness ==
    /\ pc = "returned"
    /\ result = Failure(IoError)
    /\ duration > 0
    /\ pos > 0
    /\ pos < FileLen(file)

---------------------------------------------------------------------------
(* C12 *)

\* a window that is a valid frame header, and what the tables give for it
WinValid(b) ==
    /\ WinSync(b)
    /\ WinVersion(b) # 1
    /\ WinLayer(b) # 0
    /\ WinBitrate(b) \in 1..14
    /\ WinSampling(b) # 3

\* bit 9
WinPadding(b) == (b[3] \div 2) % 2

WinSamples(b) ==
    SAMPLES_PER_FRAME[VersionOf(WinVersion(b)) + 1][LayerOf(WinLayer(b)) + 1]

WinBps(b) ==
    1000 * BIT_RATES[VersionOf(WinVersion(b)) + 1][LayerOf(WinLayer(b)) + 1]
                    [WinBitrate(b) + 1]

WinHz(b) == SAMPLING_RATES[VersionOf(WinVersion(b)) + 1][WinSampling(b) + 1]

\* floor(floor(samples / 8) * bps / hz) + padding
WinFrameBytes(b) == ((WinSamples(b) \div 8) * WinBps(b)) \div WinHz(b) + WinPadding(b)

\* C12: after a window at offset p that is a valid frame header the next
\* window is read at p + floor(floor(samples / 8) * bps / hz) + padding; so
\* on a stream of whole frames and tags every iteration starts at the first
\* byte of a frame or tag or at the end, and with a truncated or non-audio
\* last chunk at such a byte or with nothing left to read.
C12_NextWindow ==
    [][/\ (pc = "dispatch" /\ WinValid(buffer)) =>
            (pc' = "loop" /\ pos' = (pos - 4) + WinFrameBytes(buffer))
       /\ (pc' = "loop" /\ KindsOf(file) \subseteq WholeKinds) =>
            \E n \in 0..Len(file) : pos' = PrefixLen(file, n)
       /\ (pc' = "loop" /\ KindsOf(file) \subseteq WholeKinds \cup {"cut", "raw"}) =>
            \/ pos' >= FileLen(file)
            \/ \E n \in 0..Len(file) : pos' = PrefixLen(file, n)]_vars

C12_Witness ==
    /\ pc = "loop"
    /\ Len(file) = 3
    /\ file[1] = FrameChunk(Layer1Spec)
    /\ file[2] = Cbr320
    /\ pos = 673 + 1044
    /\ duration = 38122448

---------------------------------------------------------------------------
(* C13 *)

\* C13: on every stream the scan returns; a window is read only when 4 bytes
\* are there, the cursor never moves backward, and an iteration that goes on
\* scanning leaves the cursor at or after the end of its window, 4 bytes or
\* more after its start (so there are at most length / 4 such iterations).
C13_Terminates ==
    /\ <>(pc = "returned")
    /\ [][/\ pos' >= pos
          /\ (pc = "loop" /\ pc' = "dispatch") =>
               (pos' = pos + 4 /\ pos' <= FileLen(file))
          /\ (pc = "dispatch" /\ pc' = "loop") => pos' >= pos]_vars

C13_Witness ==
    /\ pc = "returned"
    /\ Len(file) = 3
    /\ KindsOf(file) = {"id3v2", "frame", "cut"}
    /\ result.kind = "Ok"
    /\ duration > 0
    /\ pos >= FileLen(file) - 3

---------------------------------------------------------------------------
(* C14 *)

\* C14: the running duration starts at zero and never decreases; a step
\* changes it only when the window is a valid frame header, and then by
\* floor(samples * 10^9 / hz) of that header; a step on an ID3v1 or ID3v2
\* window leaves it unchanged; a returned duration is the running total and
\* is not negative.
C14_DurationMonotone ==
    /\ duration = 0
    /\ [][/\ duration' >= duration
          /\ duration' # duration =>
               /\ pc = "dispatch"
               /\ WinValid(buffer)
               /\ duration' = duration + frame_duration(WinSamples(buffer), WinHz(buffer))
          /\ (pc = "dispatch" /\ (WinId3v1(buffer) \/ WinId3v2(buffer))) =>
               duration' = duration
          /\ result'.kind = "Ok" =>
               (result'.duration = duration /\ result'.duration >= 0)]_vars

C14_Witness ==
    /\ pc = "loop"
    /\ Len(file) = 3
    /\ file[1].kind = "frame"
    /\ file[2].kind = "id3v2"
    /\ file[3].kind = "frame"
    /\ pos = FileLen(file)
    /\ duration = file[1].ns + file[3].ns

---------------------------------------------------------------------------
(* C15 *)

\* C15: a window with the sync pattern that breaks several rules fails with
\* the error of the first check in the order version, bitrate, layer,
\* sampling rate: version code 01 gives ForbiddenVersion whatever the other
\* fields; otherwise bitrate code 0 or 15 gives InvalidBitrate; otherwise
\* layer code 00 gives ForbiddenLayer; otherwise sampling-rate code 3 gives
\* InvalidSamplingRate.
C15_FirstCheckWins ==
    [][(pc = "dispatch" /\ WinSync(buffer)) =>
         /\ WinVersion(buffer) = 1 =>
              (pc' = "returned" /\ result' = Failure(Err("ForbiddenVersion", 0)))
         /\ (WinVersion(buffer) # 1 /\ WinBitrate(buffer) \in {0, 15}) =>
              (pc' = "returned" /\
               result' = Failure(Err("InvalidBitrate", WinBitrate(buffer))))
         /\ (WinVersion(buffer) # 1 /\ WinBitrate(buffer) \in 1..14
                /\ WinLayer(buffer) = 0) =>
              (pc' = "returned" /\ result' = Failure(Err("ForbiddenLayer", 0)))
         /\ (WinVersion(buffer) # 1 /\ WinBitrate(buffer) \in 1..14
                /\ WinLayer(buffer) # 0 /\ WinSampling(buffer) = 3) =>
              (pc' = "returned" /\ result' = Failure(Err("InvalidSamplingRate", 3)))]_vars

\* a header with layer code 00 and sampling-rate code 3 after a counted frame
C15_Witness ==
    /\ pc = "returned"
    /\ result = Failure(Err("ForbiddenLayer", 0))
    /\ WinSync(buffer)
    /\ WinBitrate(buffer) \in 1..14
    /\ WinSampling(buffer) = 3
    /\ duration > 0

---------------------------------------------------------------------------
(* C16 *)

\* C16: for every window that is a valid frame header the u32 arithmetic of
\* the frame stays in range: floor(samples / 8) * bps is below 2^32, the
\* sampling rate is not zero, floor(floor(samples / 8) * bps / hz) + padding
\* is at least 4, so that the frame length the scanner seeks by is that
\* value less 4 and not negative, and the frame's duration in nanoseconds is
\* below 10^9, which is below 2^32.
C16_NoWrap ==
    (pc = "dispatch" /\ WinValid(buffer)) =>
        /\ ((WinSamples(buffer) \div 8) * WinBps(buffer)) \div 65536 < 65536
        /\ WinHz(buffer) > 0
        /\ WinFrameBytes(buffer) >= 4
        /\ DecodeFrame(Header(buffer)).ok
        /\ DecodeFrame(Header(buffer)).len = WinFrameBytes(buffer) - 4
        /\ DecodeFrame(Header(buffer)).len >= 0
        /\ DecodeFrame(Header(buffer)).ns
              = frame_duration(WinSamples(buffer), WinHz(buffer))
        /\ DecodeFrame(Header(buffer)).ns < 1000000000
        /\ 1000000000 \div 65536 < 65536

\* the shortest valid frame: 24 bytes, after a counted frame
C16_Witness ==
    /\ pc = "dispatch"
    /\ WinValid(buffer)
    /\ WinFrameBytes(buffer) = 24
    /\ WinPadding(buffer) = 0
    /\ duration > 0

---------------------------------------------------------------------------
(* C17 *)

\* C17: a window that is a valid frame header is counted whether or not the
\* frame's body is in the stream: when the stream ends before the end of the
\* frame, the step still adds floor(samples * 10^9 / hz) to the duration and
\* leaves the cursor past the end, and the read that follows returns success
\* with that total.
C17_CutFrameCounted ==
    [][/\ (pc = "dispatch" /\ WinValid(buffer)
            /\ pos + WinFrameBytes(buffer) - 4 > FileLen(file)) =>
              /\ pc' = "loop"
              /\ duration' = duration + frame_duration(WinSamples(buffer), WinHz(buffer))
              /\ pos' = pos + WinFrameBytes(buffer) - 4
              /\ result' = Pending
       /\ (pc = "loop" /\ pos > FileLen(file)) =>
              (pc' = "returned" /\ result' = Ok(duration) /\ pos' = pos)]_vars

\* a whole frame, then a frame of 24 bytes cut after its 4 header bytes
C17_Witness ==
    /\ pc = "returned"
    /\ file = <<Cbr320, Cut(SmallFrame, 4)>>
    /\ result = Ok(Cbr320.ns + SmallFrame.ns)
    /\ pos = FileLen(file) + 20

====
